---- MODULE Spec2Model ----
(***************************************************************************)
(* Model of package asyncui (kyma CLI): the AsyncUI progress controller.   *)
(*                                                                         *)
(* One AsyncUI instance, the consumer goroutine launched by Start(), the   *)
(* producers that send ProcessUpdate events on the unbuffered update       *)
(* channel, the callers of Stop(), and the caller-owned Errors channel.    *)
(*                                                                         *)
(* The update channel is unbuffered: a send is a rendezvous with the       *)
(* consumer's receive.  The value a blocked sender holds cannot be seen by *)
(* anybody before the rendezvous, so it is drawn when the rendezvous       *)
(* happens (ConsumerReceive).                                              *)
(***************************************************************************)
EXTENDS Naturals, Sequences, FiniteSets, TLC

(* ------------------------------------------------------------------ *)
(* Bounds                                                             *)
(* ------------------------------------------------------------------ *)

\* number of events the producers send in one run
MaxEvents == 3

\* number of Stop() calls made in one run
MaxStopCalls == 2

\* number of consumer goroutines left behind by repeated Start() calls
MaxOrphans == 1

Producers == {1, 2}
Stoppers  == {1, 2}

(* ------------------------------------------------------------------ *)
(* Data: deployment.ProcessUpdate                                     *)
(* ------------------------------------------------------------------ *)

ProcessStart    == "ProcessStart"
ProcessRunning  == "ProcessRunning"
ProcessFinished == "ProcessFinished"
\* any event value the consumer's switch does not name (the default case)
ProcessFailed   == "Failed"

ProcessEvents == {ProcessStart, ProcessRunning, ProcessFinished, ProcessFailed}

InstallPreRequisites   == "InstallPreRequisites"
UninstallPreRequisites == "UninstallPreRequisites"
InstallComponents      == "InstallComponents"
UninstallComponents    == "UninstallComponents"
\* deployment.InstallationPhase is a string type: a value outside the four
UnknownPhase           == "UnknownPhase"

\* the phases the modelled producers use
Phases == {InstallComponents, UnknownPhase}

\* the four phases the deployment package names
KnownPhases == {InstallPreRequisites, UninstallPreRequisites, InstallComponents,
                UninstallComponents}

StatusOk    == "ok"
StatusError == "error"

\* components.KymaComponent: Name and Status; Name = "" means no component
NoComponent == [Name |-> "", Status |-> ""]
Components  == {NoComponent,
                [Name |-> "core", Status |-> StatusOk],
                [Name |-> "core", Status |-> StatusError]}

\* The events the modelled producers send.  For InstallComponents: every event
\* value with every component.  For the second phase: every event value
\* without component, and the component events the deployment sends
\* ("components have no ProcessStart/ProcessStop event"): ProcessRunning.
ProcessUpdates ==
    [Event : ProcessEvents, Phase : {InstallComponents}, Component : Components]
    \cup [Event : ProcessEvents, Phase : {UnknownPhase}, Component : {NoComponent}]
    \cup [Event : {ProcessRunning}, Phase : {UnknownPhase},
          Component : Components \ {NoComponent}]

(* ------------------------------------------------------------------ *)
(* Messages (const block) and errors (fmt.Errorf)                     *)
(* ------------------------------------------------------------------ *)

deployPrerequisitesPhaseMsg   == "Deploying pre-requisites"
undeployPrerequisitesPhaseMsg == "Undeploying pre-requisites"
deployComponentsPhaseMsg      == "Deploying Kyma"
undeployComponentsPhaseMsg    == "Undeploying Kyma"
\* fmt.Sprintf(deployComponentMsg, name)
deployComponentMsg(name)      == "Deploying component '" \o name \o "'"

\* a nil error
NoErr == ""

errStepExists(phase) ==
    "Illegal state: start-step for installation phase '" \o phase \o "' already exists"
errStepMissing(phase) ==
    "Illegal state: step for installation phase '" \o phase \o "' does not exist"
errPhaseFailed(phase, event) ==
    "Deployment phase '" \o phase \o "' failed: " \o event
errComponentFailed(name) ==
    "Deployment of component '" \o name \o "' failed"

(* ------------------------------------------------------------------ *)
(* State                                                              *)
(* ------------------------------------------------------------------ *)

VARIABLES
    Errors,        \* ui.Errors: "nil" or "chan" (unbuffered, owned by the caller)
    updates,       \* ui.updates: "nil", "open" or "closed"
    context,       \* ui.context: "nil", "active" or "done" (cancelled)
    stopped,       \* ui.stopped
    mu,            \* ui.mu: 0 when free, else the Stop() caller holding it
    cpc,           \* consumer goroutine: "none", "recv", "sendErr", "done"
    orphans,       \* consumer goroutines ranging over a channel that a later
                   \* Start() replaced in ui.updates
    pendingErr,    \* the error the consumer is blocked sending on Errors
    ongoingSteps,  \* map phase -> step (a function on the phases that have an entry)
    steps,         \* the Steps made by StepFactory.NewStep: steps[id] is the label
    ops,           \* calls on the StepFactory and on Steps, in the order made
    accepted,      \* the events accepted by the update channel, in order
    before,        \* ongoingSteps, steps, ops and errs as they were when the last
                   \* event was accepted
    errs,          \* the errors returned by the render functions, in order
    sink,          \* the errors received by the caller from Errors, in order
    ppc,           \* producers: "idle", "sending", "panicked"
    spc,           \* Stop() callers: "idle", "locking", "waiting", "returned", "panicked"
    stopCalls,     \* the number of Stop() calls made so far
    panicMsg,      \* "" or the message of the panic that ended the process
    cmd            \* the uninstall command's Run(): its position, the flags and
                   \* locals it has set and its result

vars == <<Errors, updates, context, stopped, mu, cpc, orphans, pendingErr, ongoingSteps,
          steps, ops, accepted, before, errs, sink, ppc, spc, stopCalls, panicMsg,
          cmd>>

\* the fields of the AsyncUI value with the goroutines and callers around it
uiVars == <<Errors, updates, context, stopped, mu, cpc, orphans, pendingErr,
            ongoingSteps, steps, ops, accepted, before, errs, sink, ppc, spc,
            stopCalls, panicMsg>>

\* Run() before its first statement: no flag read, no UI, nothing deferred
CmdInit == [pc |-> "start", Verbose |-> FALSE, uiStarted |-> FALSE,
            deferStop |-> FALSE, updateCh |-> "nil", uninstallErr |-> "unset",
            deleteErr |-> "unset", result |-> "none"]

\* what the render functions read and write, with its history
rendered == <<ongoingSteps, steps, ops, accepted, before, errs>>

\* make(map[deployment.InstallationPhase]step.Step)
EmptyMap == [p \in {} |-> 0]

exists(m, phase) == phase \in DOMAIN m

MapSet(m, phase, v) ==
    [q \in (DOMAIN m) \cup {phase} |-> IF q = phase THEN v ELSE m[q]]

Init ==
    /\ Errors \in {"nil", "chan"}
    /\ updates = "nil"
    /\ context = "nil"
    /\ stopped = FALSE
    /\ mu = 0
    /\ cpc = "none"
    /\ orphans = 0
    /\ pendingErr = NoErr
    /\ ongoingSteps = EmptyMap
    /\ steps = <<>>
    /\ ops = <<>>
    /\ accepted = <<>>
    /\ before = [ongoingSteps |-> EmptyMap, steps |-> <<>>, ops |-> <<>>, errs |-> <<>>]
    /\ errs = <<>>
    /\ sink = <<>>
    /\ ppc = [p \in Producers |-> "idle"]
    /\ spc = [s \in Stoppers |-> "idle"]
    /\ stopCalls = 0
    /\ panicMsg = ""
    /\ cmd = CmdInit

(* ------------------------------------------------------------------ *)
(* Rendering: the consumer's local state is the record                *)
(*   [ongoingSteps, steps, ops, err]                                  *)
(* and idx is the position of the handled event in `accepted`.        *)
(* ------------------------------------------------------------------ *)

\* StepFactory.NewStep(msg): the new Step is steps[Len(steps)]
NewStep(r, msg, idx) ==
    LET id == Len(r.steps) + 1 IN
    [r EXCEPT !.steps = Append(r.steps, msg),
              !.ops   = Append(r.ops, [op |-> "NewStep", step |-> id, ev |-> idx])]

\* step.Success() reported twice
Success_Twice(r, id, idx) ==
    [r EXCEPT !.ops = r.ops \o << [op |-> "Success", step |-> id, ev |-> idx],
                                   [op |-> "Success", step |-> id, ev |-> idx] >>]

\* step.Success()
Success(r, id, idx) ==
    [r EXCEPT !.ops = Append(r.ops, [op |-> "Success", step |-> id, ev |-> idx])]

\* step.Failure()
Failure(r, id, idx) ==
    [r EXCEPT !.ops = Append(r.ops, [op |-> "Failure", step |-> id, ev |-> idx])]

\* the switch giving the label of InstallComponents to UninstallComponents too
stepMsg_SharedLabel(phase) ==
    CASE phase = InstallPreRequisites   -> deployPrerequisitesPhaseMsg
      [] phase = UninstallPreRequisites -> undeployPrerequisitesPhaseMsg
      [] phase = InstallComponents      -> deployComponentsPhaseMsg
      [] phase = UninstallComponents    -> deployComponentsPhaseMsg
      [] OTHER                          -> ""

\* the switch on procUpdEvent.Phase: stepMsg stays "" when no case matches
stepMsg(phase) ==
    CASE phase = InstallPreRequisites   -> deployPrerequisitesPhaseMsg
      [] phase = UninstallPreRequisites -> undeployPrerequisitesPhaseMsg
      [] phase = InstallComponents      -> deployComponentsPhaseMsg
      [] phase = UninstallComponents    -> undeployComponentsPhaseMsg
      [] OTHER                          -> ""

\* renderStartEvent without the check for an existing entry
renderStartEvent_NoExistsCheck(procUpdEvent, r, idx) ==
    LET r2 == NewStep(r, stepMsg(procUpdEvent.Phase), idx) IN
    [r2 EXCEPT !.ongoingSteps =
                   MapSet(r.ongoingSteps, procUpdEvent.Phase, Len(r2.steps)),
               !.err = NoErr]

\* renderStartEvent recording the new Step in a map that holds nothing else
renderStartEvent_ResetsMap(procUpdEvent, r, idx) ==
    IF exists(r.ongoingSteps, procUpdEvent.Phase)
    THEN [r EXCEPT !.err = errStepExists(procUpdEvent.Phase)]
    ELSE LET r2 == NewStep(r, stepMsg(procUpdEvent.Phase), idx) IN
         [r2 EXCEPT !.ongoingSteps =
                        MapSet(EmptyMap, procUpdEvent.Phase, Len(r2.steps)),
                    !.err = NoErr]

\* renderStartEvent making the new Step before it looks for an existing entry
renderStartEvent_StepBeforeCheck(procUpdEvent, r, idx) ==
    LET r2 == NewStep(r, stepMsg(procUpdEvent.Phase), idx) IN
    IF exists(r.ongoingSteps, procUpdEvent.Phase)
    THEN [r2 EXCEPT !.err = errStepExists(procUpdEvent.Phase)]
    ELSE [r2 EXCEPT !.ongoingSteps =
                        MapSet(r.ongoingSteps, procUpdEvent.Phase, Len(r2.steps)),
                    !.err = NoErr]

renderStartEvent(procUpdEvent, r, idx) ==
    IF exists(r.ongoingSteps, procUpdEvent.Phase)
    THEN [r EXCEPT !.err = errStepExists(procUpdEvent.Phase)]
    ELSE LET r2 == NewStep(r, stepMsg(procUpdEvent.Phase), idx) IN
         [r2 EXCEPT !.ongoingSteps =
                        MapSet(r.ongoingSteps, procUpdEvent.Phase, Len(r2.steps)),
                    !.err = NoErr]

\* renderStopEvent calling Success() on the phase's step whatever the event
renderStopEvent_AlwaysSuccess(procUpdEvent, r, idx) ==
    IF ~exists(r.ongoingSteps, procUpdEvent.Phase)
    THEN [r EXCEPT !.err = errStepMissing(procUpdEvent.Phase)]
    ELSE
      LET comp == procUpdEvent.Component IN
      IF comp.Name = ""
      THEN [Success(r, r.ongoingSteps[procUpdEvent.Phase], idx) EXCEPT !.err = NoErr]
      ELSE LET r2   == NewStep(r, deployComponentMsg(comp.Name), idx)
               step == Len(r2.steps)
           IN
           IF comp.Status = StatusError
           THEN [Failure(r2, step, idx) EXCEPT !.err = errComponentFailed(comp.Name)]
           ELSE [Success(r2, step, idx) EXCEPT !.err = NoErr]

\* renderStopEvent marking the phase's Step on an event with a component
renderStopEvent_ComponentOnPhaseStep(procUpdEvent, r, idx) ==
    IF ~exists(r.ongoingSteps, procUpdEvent.Phase)
    THEN [r EXCEPT !.err = errStepMissing(procUpdEvent.Phase)]
    ELSE
      LET comp         == procUpdEvent.Component
          event        == procUpdEvent.Event
          installPhase == procUpdEvent.Phase
      IN
      IF comp.Name = ""
      THEN IF event = ProcessFinished
           THEN [Success(r, r.ongoingSteps[installPhase], idx) EXCEPT !.err = NoErr]
           ELSE [Failure(r, r.ongoingSteps[installPhase], idx)
                    EXCEPT !.err = errPhaseFailed(installPhase, event)]
      ELSE IF comp.Status = StatusError
           THEN [Failure(r, r.ongoingSteps[installPhase], idx)
                    EXCEPT !.err = errComponentFailed(comp.Name)]
           ELSE [Success(r, r.ongoingSteps[installPhase], idx) EXCEPT !.err = NoErr]

\* renderStopEvent recording the component's Step as the Step of the phase
renderStopEvent_ComponentReplacesEntry(procUpdEvent, r, idx) ==
    IF ~exists(r.ongoingSteps, procUpdEvent.Phase)
    THEN [r EXCEPT !.err = errStepMissing(procUpdEvent.Phase)]
    ELSE
      LET comp         == procUpdEvent.Component
          event        == procUpdEvent.Event
          installPhase == procUpdEvent.Phase
      IN
      IF comp.Name = ""
      THEN IF event = ProcessFinished
           THEN [Success(r, r.ongoingSteps[installPhase], idx) EXCEPT !.err = NoErr]
           ELSE [Failure(r, r.ongoingSteps[installPhase], idx)
                    EXCEPT !.err = errPhaseFailed(installPhase, event)]
      ELSE LET r2   == NewStep(r, deployComponentMsg(comp.Name), idx)
               step == Len(r2.steps)
               r3   == [r2 EXCEPT !.ongoingSteps =
                                      MapSet(r.ongoingSteps, installPhase, step)]
           IN
           IF comp.Status = StatusError
           THEN [Failure(r3, step, idx) EXCEPT !.err = errComponentFailed(comp.Name)]
           ELSE [Success(r3, step, idx) EXCEPT !.err = NoErr]

\* renderStopEvent marking every component step successful
renderStopEvent_StatusIgnored(procUpdEvent, r, idx) ==
    IF ~exists(r.ongoingSteps, procUpdEvent.Phase)
    THEN [r EXCEPT !.err = errStepMissing(procUpdEvent.Phase)]
    ELSE
      LET comp         == procUpdEvent.Component
          event        == procUpdEvent.Event
          installPhase == procUpdEvent.Phase
      IN
      IF comp.Name = ""
      THEN IF event = ProcessFinished
           THEN [Success(r, r.ongoingSteps[installPhase], idx) EXCEPT !.err = NoErr]
           ELSE [Failure(r, r.ongoingSteps[installPhase], idx)
                    EXCEPT !.err = errPhaseFailed(installPhase, event)]
      ELSE LET r2 == NewStep(r, deployComponentMsg(comp.Name), idx) IN
           [Success(r2, Len(r2.steps), idx) EXCEPT !.err = NoErr]

\* renderStopEvent checking for the phase's entry only on events without component
renderStopEvent_ComponentUnchecked(procUpdEvent, r, idx) ==
    LET comp         == procUpdEvent.Component
        event        == procUpdEvent.Event
        installPhase == procUpdEvent.Phase
    IN
    IF comp.Name = ""
    THEN IF ~exists(r.ongoingSteps, installPhase)
         THEN [r EXCEPT !.err = errStepMissing(installPhase)]
         ELSE IF event = ProcessFinished
         THEN [Success(r, r.ongoingSteps[installPhase], idx) EXCEPT !.err = NoErr]
         ELSE [Failure(r, r.ongoingSteps[installPhase], idx)
                  EXCEPT !.err = errPhaseFailed(installPhase, event)]
    ELSE LET r2   == NewStep(r, deployComponentMsg(comp.Name), idx)
             step == Len(r2.steps)
         IN
         IF comp.Status = StatusError
         THEN [Failure(r2, step, idx) EXCEPT !.err = errComponentFailed(comp.Name)]
         ELSE [Success(r2, step, idx) EXCEPT !.err = NoErr]

renderStopEvent(procUpdEvent, r, idx) ==
    IF ~exists(r.ongoingSteps, procUpdEvent.Phase)
    THEN [r EXCEPT !.err = errStepMissing(procUpdEvent.Phase)]
    ELSE
      LET comp         == procUpdEvent.Component
          event        == procUpdEvent.Event
          installPhase == procUpdEvent.Phase
      IN
      IF comp.Name = ""
      THEN IF event = ProcessFinished
           THEN [Success(r, r.ongoingSteps[installPhase], idx) EXCEPT !.err = NoErr]
           ELSE [Failure(r, r.ongoingSteps[installPhase], idx)
                    EXCEPT !.err = errPhaseFailed(installPhase, event)]
      ELSE LET r2   == NewStep(r, deployComponentMsg(comp.Name), idx)
               step == Len(r2.steps)
           IN
           IF comp.Status = StatusError
           THEN [Failure(r2, step, idx) EXCEPT !.err = errComponentFailed(comp.Name)]
           ELSE [Success(r2, step, idx) EXCEPT !.err = NoErr]

\* the loop body leaving the Step of a ProcessRunning component event unmarked
handleEvent_RunningInProgress(procUpdateEvent, r, idx) ==
    CASE procUpdateEvent.Event = ProcessRunning ->
            IF procUpdateEvent.Component.Name = ""
            THEN [r EXCEPT !.err = NoErr]
            ELSE IF exists(r.ongoingSteps, procUpdateEvent.Phase)
            THEN [NewStep(r, deployComponentMsg(procUpdateEvent.Component.Name), idx)
                     EXCEPT !.err = NoErr]
            ELSE renderStopEvent(procUpdateEvent, r, idx)
      [] procUpdateEvent.Event = ProcessStart ->
            renderStartEvent(procUpdateEvent, r, idx)
      [] OTHER ->
            renderStopEvent(procUpdateEvent, r, idx)

\* the loop body passing every ProcessRunning event to renderStopEvent
handleEvent_RunningAsStop(procUpdateEvent, r, idx) ==
    CASE procUpdateEvent.Event = ProcessStart ->
            renderStartEvent(procUpdateEvent, r, idx)
      [] OTHER ->
            renderStopEvent(procUpdateEvent, r, idx)

\* the loop body skipping every ProcessRunning event
handleEvent_RunningSkipped(procUpdateEvent, r, idx) ==
    CASE procUpdateEvent.Event = ProcessRunning ->
            [r EXCEPT !.err = NoErr]
      [] procUpdateEvent.Event = ProcessStart ->
            renderStartEvent(procUpdateEvent, r, idx)
      [] OTHER ->
            renderStopEvent(procUpdateEvent, r, idx)

\* the body of the consumer's for-range loop up to the call of sendError
handleEvent(procUpdateEvent, r, idx) ==
    CASE procUpdateEvent.Event = ProcessRunning ->
            IF procUpdateEvent.Component.Name # ""
            THEN renderStopEvent(procUpdateEvent, r, idx)
            ELSE [r EXCEPT !.err = NoErr]
      [] procUpdateEvent.Event = ProcessStart ->
            renderStartEvent(procUpdateEvent, r, idx)
      [] OTHER ->
            renderStopEvent(procUpdateEvent, r, idx)

\* sendError sending whenever there is an error, nil channel or not
sendErrorSends_IgnoresNil(err, errorsChan) == err # NoErr

\* sendError: the consumer sends (and blocks until the caller receives) only
\* when there is an error and an Errors channel
sendErrorSends(err, errorsChan) == err # NoErr /\ errorsChan # "nil"

(* ------------------------------------------------------------------ *)
(* Actions                                                            *)
(* ------------------------------------------------------------------ *)

Running == panicMsg = ""

\* Start(): makes the channel and the context, launches the consumer, which
\* makes its map and waits for the first event
Start ==
    /\ Running
    /\ updates = "nil"
    /\ updates' = "open"
    /\ context' = "active"
    /\ cpc' = "recv"
    /\ ongoingSteps' = EmptyMap
    /\ UNCHANGED <<Errors, orphans, cmd, stopped, mu, pendingErr, steps, ops, accepted, before,
                   errs, sink, ppc, spc, stopCalls, panicMsg>>

\* Start() called on a controller that was started before: the code has no
\* check, it overwrites ui.updates and ui.context and launches one more
\* consumer with a map of its own.  A consumer still ranging over the replaced
\* channel stays: nothing reachable from ui can close that channel.  The
\* call is taken while no producer is in a send, no Stop() is in progress and
\* the earlier consumer waits for an event or has returned.
StartAgain ==
    /\ Running
    /\ updates # "nil"
    /\ cpc \in {"recv", "done"}
    /\ mu = 0
    /\ \A p \in Producers : ppc[p] = "idle"
    /\ orphans < MaxOrphans
    /\ orphans' = IF cpc = "recv" THEN orphans + 1 ELSE orphans
    /\ updates' = "open"
    /\ context' = "active"
    /\ cpc' = "recv"
    /\ ongoingSteps' = EmptyMap
    /\ UNCHANGED <<Errors, cmd, stopped, mu, pendingErr, steps, ops, accepted, before,
                   errs, sink, ppc, spc, stopCalls, panicMsg>>

\* a producer starts a send on the channel Start() returned; it blocks
Send(p) ==
    /\ Running
    /\ updates # "nil"
    /\ ppc[p] = "idle"
    /\ Len(accepted) + Cardinality({q \in Producers : ppc[q] = "sending"}) < MaxEvents
    /\ ppc' = [ppc EXCEPT ![p] = "sending"]
    /\ UNCHANGED <<Errors, orphans, cmd, updates, context, stopped, mu, cpc, pendingErr, rendered,
                   sink, spc, stopCalls, panicMsg>>

\* a send on a closed channel returning as if the event had been taken
SendOnClosed_Silent(p) ==
    /\ Running
    /\ ppc[p] = "sending"
    /\ updates = "closed"
    /\ ppc' = [ppc EXCEPT ![p] = "idle"]
    /\ UNCHANGED <<Errors, orphans, cmd, updates, context, stopped, mu, cpc, pendingErr,
                   rendered, sink, spc, stopCalls, panicMsg>>

\* a send on a closed channel panics
SendOnClosed(p) ==
    /\ Running
    /\ ppc[p] = "sending"
    /\ updates = "closed"
    /\ ppc' = [ppc EXCEPT ![p] = "panicked"]
    /\ panicMsg' = "send on closed channel"
    /\ UNCHANGED <<Errors, orphans, cmd, updates, context, stopped, mu, cpc, pendingErr, rendered,
                   sink, spc, stopCalls>>

\* one iteration of a consumer loop that returns when the dispatch gave an error
ConsumerReceive_ExitOnError(p, e) ==
    /\ Running
    /\ cpc = "recv"
    /\ updates = "open"
    /\ ppc[p] = "sending"
    /\ LET idx == Len(accepted) + 1
           r   == handleEvent(e, [ongoingSteps |-> ongoingSteps, steps |-> steps,
                                  ops |-> ops, err |-> NoErr], idx)
       IN
       /\ accepted' = Append(accepted, e)
       /\ before' = [ongoingSteps |-> ongoingSteps, steps |-> steps, ops |-> ops,
                     errs |-> errs]
       /\ ppc' = [ppc EXCEPT ![p] = "idle"]
       /\ ongoingSteps' = r.ongoingSteps
       /\ steps' = r.steps
       /\ ops' = r.ops
       /\ errs' = IF r.err # NoErr THEN Append(errs, [ev |-> idx, err |-> r.err])
                                   ELSE errs
       /\ pendingErr' = NoErr
       /\ IF r.err # NoErr
          THEN cpc' = "done" /\ context' = "done"
          ELSE cpc' = "recv" /\ context' = context
    /\ UNCHANGED <<Errors, orphans, cmd, updates, stopped, mu, sink, spc, stopCalls, panicMsg>>

\* one iteration of a consumer loop that takes the event and renders nothing
ConsumerReceive_DropsEvent(p, e) ==
    /\ Running
    /\ cpc = "recv"
    /\ updates = "open"
    /\ ppc[p] = "sending"
    /\ accepted' = Append(accepted, e)
    /\ before' = [ongoingSteps |-> ongoingSteps, steps |-> steps, ops |-> ops,
                  errs |-> errs]
    /\ ppc' = [ppc EXCEPT ![p] = "idle"]
    /\ UNCHANGED <<Errors, orphans, cmd, updates, context, stopped, mu, cpc, pendingErr,
                   ongoingSteps, steps, ops, errs, sink, spc, stopCalls, panicMsg>>

\* one iteration of a consumer loop that does not wait for the hand-off of the
\* previous error before it takes the next event
ConsumerReceive_AsyncSendError(p, e) ==
    /\ Running
    /\ cpc \in {"recv", "sendErr"}
    /\ updates = "open"
    /\ ppc[p] = "sending"
    /\ LET idx == Len(accepted) + 1
           r   == handleEvent(e, [ongoingSteps |-> ongoingSteps, steps |-> steps,
                                  ops |-> ops, err |-> NoErr], idx)
       IN
       /\ accepted' = Append(accepted, e)
       /\ before' = [ongoingSteps |-> ongoingSteps, steps |-> steps, ops |-> ops,
                     errs |-> errs]
       /\ ppc' = [ppc EXCEPT ![p] = "idle"]
       /\ ongoingSteps' = r.ongoingSteps
       /\ steps' = r.steps
       /\ ops' = r.ops
       /\ errs' = IF r.err # NoErr THEN Append(errs, [ev |-> idx, err |-> r.err])
                                   ELSE errs
       /\ IF sendErrorSends(r.err, Errors)
          THEN cpc' = "sendErr" /\ pendingErr' = r.err
          ELSE cpc' = cpc /\ pendingErr' = pendingErr
    /\ UNCHANGED <<Errors, orphans, cmd, updates, context, stopped, mu, sink, spc, stopCalls,
                   panicMsg>>

\* one iteration of a consumer loop that marks the controller stopped when the
\* dispatch gave an error
ConsumerReceive_MarksStopped(p, e) ==
    /\ Running
    /\ cpc = "recv"
    /\ updates = "open"
    /\ ppc[p] = "sending"
    /\ LET idx == Len(accepted) + 1
           r   == handleEvent(e, [ongoingSteps |-> ongoingSteps, steps |-> steps,
                                  ops |-> ops, err |-> NoErr], idx)
       IN
       /\ accepted' = Append(accepted, e)
       /\ before' = [ongoingSteps |-> ongoingSteps, steps |-> steps, ops |-> ops,
                     errs |-> errs]
       /\ ppc' = [ppc EXCEPT ![p] = "idle"]
       /\ ongoingSteps' = r.ongoingSteps
       /\ steps' = r.steps
       /\ ops' = r.ops
       /\ errs' = IF r.err # NoErr THEN Append(errs, [ev |-> idx, err |-> r.err])
                                   ELSE errs
       /\ stopped' = (stopped \/ r.err # NoErr)
       /\ IF sendErrorSends(r.err, Errors)
          THEN cpc' = "sendErr" /\ pendingErr' = r.err
          ELSE cpc' = "recv" /\ pendingErr' = NoErr
    /\ UNCHANGED <<Errors, orphans, cmd, updates, context, mu, sink, spc, stopCalls,
                   panicMsg>>

\* one iteration of the consumer loop: the channel hands over the event of
\* producer p, the consumer renders it and calls sendError
ConsumerReceive(p, e) ==
    /\ Running
    /\ cpc = "recv"
    /\ updates = "open"
    /\ ppc[p] = "sending"
    /\ LET idx == Len(accepted) + 1
           r   == handleEvent(e, [ongoingSteps |-> ongoingSteps, steps |-> steps,
                                  ops |-> ops, err |-> NoErr], idx)
       IN
       /\ accepted' = Append(accepted, e)
       /\ before' = [ongoingSteps |-> ongoingSteps, steps |-> steps, ops |-> ops,
                     errs |-> errs]
       /\ ppc' = [ppc EXCEPT ![p] = "idle"]
       /\ ongoingSteps' = r.ongoingSteps
       /\ steps' = r.steps
       /\ ops' = r.ops
       /\ errs' = IF r.err # NoErr THEN Append(errs, [ev |-> idx, err |-> r.err])
                                   ELSE errs
       /\ IF sendErrorSends(r.err, Errors)
          THEN cpc' = "sendErr" /\ pendingErr' = r.err
          ELSE cpc' = "recv" /\ pendingErr' = NoErr
    /\ UNCHANGED <<Errors, orphans, cmd, updates, context, stopped, mu, sink, spc, stopCalls,
                   panicMsg>>

\* the caller receives from Errors and the consumer sends the same error again
ErrorsReceive_Resends ==
    /\ Running
    /\ cpc = "sendErr"
    /\ Len(sink) <= Len(errs)
    /\ sink' = Append(sink, [ev |-> Len(accepted), err |-> pendingErr])
    /\ UNCHANGED <<Errors, orphans, cmd, updates, context, stopped, mu, cpc, pendingErr,
                   rendered, ppc, spc, stopCalls, panicMsg>>

\* the caller receives from Errors: the consumer's blocked send completes
ErrorsReceive ==
    /\ Running
    /\ cpc = "sendErr"
    /\ sink' = Append(sink, [ev |-> Len(accepted), err |-> pendingErr])
    /\ pendingErr' = NoErr
    /\ cpc' = "recv"
    /\ UNCHANGED <<Errors, orphans, cmd, updates, context, stopped, mu, rendered, ppc, spc,
                   stopCalls, panicMsg>>

\* the consumer closing Errors when it returns
ConsumerExit_ClosesErrors ==
    /\ Running
    /\ cpc = "recv"
    /\ updates = "closed"
    /\ cpc' = "done"
    /\ context' = "done"
    /\ Errors' = IF Errors = "nil" THEN "nil" ELSE "closed"
    /\ UNCHANGED <<orphans, cmd, updates, stopped, mu, pendingErr, rendered, sink, ppc,
                   spc, stopCalls, panicMsg>>

\* the range loop ends on the closed channel; the deferred ui.cancel() runs
ConsumerExit ==
    /\ Running
    /\ cpc = "recv"
    /\ updates = "closed"
    /\ cpc' = "done"
    /\ context' = "done"
    /\ UNCHANGED <<Errors, orphans, cmd, updates, stopped, mu, pendingErr, rendered, sink, ppc,
                   spc, stopCalls, panicMsg>>

\* Stop() returning after close(ui.updates) without the wait on the context
StopLocked_NoWait(s) ==
    IF stopped
    THEN /\ spc' = [spc EXCEPT ![s] = "returned"]
         /\ UNCHANGED <<updates, stopped, mu, panicMsg>>
    ELSE IF updates = "nil"
    THEN /\ spc' = [spc EXCEPT ![s] = "panicked"]
         /\ panicMsg' = "close of nil channel"
         /\ UNCHANGED <<updates, stopped, mu>>
    ELSE /\ updates' = "closed"
         /\ stopped' = TRUE
         /\ spc' = [spc EXCEPT ![s] = "returned"]
         /\ UNCHANGED <<mu, panicMsg>>

\* Stop() without the early return on ui.stopped
StopLocked_NoStoppedCheck(s) ==
    IF updates = "nil"
    THEN /\ spc' = [spc EXCEPT ![s] = "panicked"]
         /\ panicMsg' = "close of nil channel"
         /\ UNCHANGED <<updates, stopped, mu>>
    ELSE IF updates = "closed"
    THEN /\ spc' = [spc EXCEPT ![s] = "panicked"]
         /\ panicMsg' = "close of closed channel"
         /\ UNCHANGED <<updates, stopped, mu>>
    ELSE /\ updates' = "closed"
         /\ stopped' = TRUE
         /\ mu' = s
         /\ spc' = [spc EXCEPT ![s] = "waiting"]
         /\ UNCHANGED panicMsg

\* Stop() from the return of Lock() to the wait on ui.context.Done(), run by
\* caller s; the deferred Unlock() runs on the early return and on a panic
StopLocked(s) ==
    IF stopped
    THEN /\ spc' = [spc EXCEPT ![s] = "returned"]
         /\ UNCHANGED <<updates, stopped, mu, panicMsg>>
    ELSE IF updates = "nil"
    THEN /\ spc' = [spc EXCEPT ![s] = "panicked"]
         /\ panicMsg' = "close of nil channel"
         /\ UNCHANGED <<updates, stopped, mu>>
    ELSE IF updates = "closed"
    THEN /\ spc' = [spc EXCEPT ![s] = "panicked"]
         /\ panicMsg' = "close of closed channel"
         /\ UNCHANGED <<updates, stopped, mu>>
    ELSE /\ updates' = "closed"
         /\ stopped' = TRUE
         /\ mu' = s
         /\ spc' = [spc EXCEPT ![s] = "waiting"]
         /\ UNCHANGED panicMsg

\* a caller calls Stop(): with the mutex free Lock() returns at once and the
\* caller runs on to the wait; with the mutex held the caller blocks in Lock()
StopCall(s) ==
    /\ Running
    /\ spc[s] \in {"idle", "returned"}
    /\ stopCalls < MaxStopCalls
    /\ stopCalls' = stopCalls + 1
    /\ IF mu = 0
       THEN StopLocked(s)
       ELSE /\ spc' = [spc EXCEPT ![s] = "locking"]
            /\ UNCHANGED <<updates, stopped, mu, panicMsg>>
    /\ UNCHANGED <<Errors, orphans, cmd, context, cpc, pendingErr, rendered, sink, ppc>>

\* a caller blocked in Lock() gets the mutex
StopLock(s) ==
    /\ Running
    /\ spc[s] = "locking"
    /\ mu = 0
    /\ StopLocked(s)
    /\ UNCHANGED <<Errors, orphans, cmd, context, cpc, pendingErr, rendered, sink, ppc, stopCalls>>

\* <-ui.context.Done() completes, the deferred Unlock() runs, Stop() returns
StopReturn(s) ==
    /\ Running
    /\ spc[s] = "waiting"
    /\ context = "done"
    /\ mu' = 0
    /\ spc' = [spc EXCEPT ![s] = "returned"]
    /\ UNCHANGED <<Errors, orphans, cmd, updates, context, stopped, cpc, pendingErr, rendered,
                   sink, ppc, stopCalls, panicMsg>>

\* The command's goroutine: the only caller of Stop() in Spec (it may call
\* Stop() again after a call has returned).
Owner == 1

Next ==
    \/ Start
    \/ \E p \in Producers : Send(p)
    \/ \E p \in Producers : SendOnClosed(p)
    \/ \E p \in Producers, e \in ProcessUpdates : ConsumerReceive(p, e)
    \/ ErrorsReceive
    \/ ConsumerExit
    \/ StopCall(Owner)
    \/ StopReturn(Owner)

Spec == Init /\ [][Next]_vars

\* The Go scheduler runs every goroutine that can run: the consumer takes a
\* pending send, leaves its loop on the closed channel, a send on the closed
\* channel panics, and a Stop() caller returns once the context is done.
\* Nothing makes the owner of Errors receive.
FairSpec ==
    /\ Spec
    /\ WF_vars(\E p \in Producers, e \in ProcessUpdates : ConsumerReceive(p, e))
    /\ WF_vars(ConsumerExit)
    /\ WF_vars(\E p \in Producers : SendOnClosed(p))
    /\ WF_vars(StopReturn(Owner))

\* The events of one phase without component: Start, Running, Finished, Failed
PhaseUpdates ==
    {e \in ProcessUpdates : e.Phase = InstallComponents /\ e.Component = NoComponent}

\* The controller between Start() and Stop(): producers send, the consumer
\* renders, the caller receives from Errors
NextRender ==
    \/ Start
    \/ \E p \in Producers : Send(p)
    \/ \E p \in Producers, e \in ProcessUpdates : ConsumerReceive(p, e)
    \/ ErrorsReceive

RenderSpec == Init /\ [][NextRender]_vars

\* Start events without component for the four phases and for a phase value
\* outside them
StartUpdates ==
    [Event : {ProcessStart}, Phase : KnownPhases \cup {UnknownPhase},
     Component : {NoComponent}]

\* The controller receiving the Start events of all phases
NextStartPhases ==
    \/ Start
    \/ \E p \in Producers : Send(p)
    \/ \E p \in Producers, e \in StartUpdates : ConsumerReceive(p, e)
    \/ ErrorsReceive

StartPhasesSpec == Init /\ [][NextStartPhases]_vars

\* The controller with callers that call Start() again
NextRestart ==
    \/ Start
    \/ StartAgain
    \/ \E p \in Producers : Send(p)
    \/ \E p \in Producers : SendOnClosed(p)
    \/ \E p \in Producers, e \in PhaseUpdates : ConsumerReceive(p, e)
    \/ ErrorsReceive
    \/ ConsumerExit
    \/ StopCall(Owner)
    \/ StopReturn(Owner)

RestartSpec == Init /\ [][NextRestart]_vars

\* The controller with every caller in Stoppers calling Stop()
NextConcurrentStop ==
    \/ Start
    \/ \E p \in Producers : Send(p)
    \/ \E p \in Producers : SendOnClosed(p)
    \/ \E p \in Producers, e \in PhaseUpdates : ConsumerReceive(p, e)
    \/ ErrorsReceive
    \/ ConsumerExit
    \/ \E s \in Stoppers : StopCall(s)
    \/ \E s \in Stoppers : StopLock(s)
    \/ \E s \in Stoppers : StopReturn(s)

\* sync.Mutex hands the lock to a caller blocked in Lock() once it is free;
\* the rest as in FairSpec
ConcurrentStopSpec ==
    /\ Init /\ [][NextConcurrentStop]_vars
    /\ WF_vars(\E p \in Producers, e \in PhaseUpdates : ConsumerReceive(p, e))
    /\ WF_vars(ConsumerExit)
    /\ WF_vars(\E p \in Producers : SendOnClosed(p))
    /\ \A s \in Stoppers : WF_vars(StopLock(s)) /\ WF_vars(StopReturn(s))

(* ------------------------------------------------------------------ *)
(* The uninstall command: Run()                                       *)
(* ------------------------------------------------------------------ *)

\* ui.Start() as Run() calls it: it returns an error value, nil when the
\* controller was started
StartResult(ok) == IF ok THEN "nil" ELSE "err"

\* ui.IsRunning(): the controller was started and not stopped
IsRunning == updates = "open" /\ ~stopped

\* ui.UpdateChannel(): the send side of ui.updates, or an error
UpdateChannel(ok) == IF ok THEN [ch |-> "chan", err |-> "nil"]
                           ELSE [ch |-> "nil", err |-> "err"]

\* a return statement of Run(): the result is set, the deferred calls are next
RunReturns(c, result) == [c EXCEPT !.pc = "defers", !.result = result]

\* cmd.opts.validateFlags() and the flags the command was called with
RunValidateFlags(verbose, ok) ==
    /\ cmd.pc = "start"
    /\ cmd' = IF ok THEN [cmd EXCEPT !.pc = "kube", !.Verbose = verbose]
                    ELSE RunReturns([cmd EXCEPT !.Verbose = verbose], "error")
    /\ UNCHANGED uiVars

\* kube.NewFromConfig()
RunNewFromConfig(ok) ==
    /\ cmd.pc = "kube"
    /\ cmd' = IF ok THEN [cmd EXCEPT !.pc = "ui"] ELSE RunReturns(cmd, "error")
    /\ UNCHANGED uiVars

\* if !cmd.Verbose: the controller is built and ui.Start() is called; an error
\* of Start() is returned with nothing deferred
RunStartUI(ok) ==
    /\ cmd.pc = "ui"
    /\ cmd' = IF cmd.Verbose THEN [cmd EXCEPT !.pc = "meta"]
              ELSE IF StartResult(ok) = "nil" THEN [cmd EXCEPT !.pc = "uiStart"]
              ELSE RunReturns(cmd, "error")
    /\ UNCHANGED uiVars

\* the body of the ui.Start() that Run() called
RunUIStart ==
    /\ cmd.pc = "uiStart"
    /\ Start

\* a Run() that goes on after ui.Start() without deferring ui.Stop()
RunDeferStop_NoDefer ==
    /\ cmd.pc = "uiStart"
    /\ updates = "open"
    /\ cmd' = [cmd EXCEPT !.pc = "meta", !.uiStarted = TRUE]
    /\ UNCHANGED uiVars

\* ui.Start() has returned nil: defer ui.Stop()
RunDeferStop ==
    /\ cmd.pc = "uiStart"
    /\ updates = "open"
    /\ cmd' = [cmd EXCEPT !.pc = "meta", !.uiStarted = TRUE, !.deferStop = TRUE]
    /\ UNCHANGED uiVars

\* cmd.retrieveKymaMetadata()
RunRetrieveKymaMetadata(ok) ==
    /\ cmd.pc = "meta"
    /\ cmd' = IF ok THEN [cmd EXCEPT !.pc = "clone"] ELSE RunReturns(cmd, "error")
    /\ UNCHANGED uiVars

\* deploy.CloneSources(), skipped (as with ok) for local sources
RunCloneSources(ok) ==
    /\ cmd.pc = "clone"
    /\ cmd' = IF ok THEN [cmd EXCEPT !.pc = "recover"] ELSE RunReturns(cmd, "error")
    /\ UNCHANGED uiVars

\* cmd.recoverComponentsListFile()
RunRecoverComponentsListFile(ok) ==
    /\ cmd.pc = "recover"
    /\ cmd' = IF ok THEN [cmd EXCEPT !.pc = "channel"] ELSE RunReturns(cmd, "error")
    /\ UNCHANGED uiVars

\* if ui.IsRunning() { updateCh, err = ui.UpdateChannel() }
RunUpdateChannel(ok) ==
    /\ cmd.pc = "channel"
    /\ cmd' = IF ~IsRunning THEN [cmd EXCEPT !.pc = "deploy"]
              ELSE LET r == UpdateChannel(ok)
                   IN  IF r.err = "nil"
                       THEN [cmd EXCEPT !.pc = "deploy", !.updateCh = r.ch]
                       ELSE RunReturns(cmd, "error")
    /\ UNCHANGED uiVars

\* deployment.NewDeployment(..., updateCh), then the call of
\* installer.StartKymaUninstallation()
RunNewDeployment(ok) ==
    /\ cmd.pc = "deploy"
    /\ cmd' = IF ok THEN [cmd EXCEPT !.pc = "uninstall"] ELSE RunReturns(cmd, "error")
    /\ UNCHANGED uiVars

\* the uninstallation sends an update on the channel it was given; with a nil
\* channel it sends none
RunUninstallSends(p) ==
    /\ cmd.pc = "uninstall"
    /\ cmd.updateCh = "chan"
    /\ Send(p)

\* installer.StartKymaUninstallation() returns, all its sends taken
RunUninstallReturns(err) ==
    /\ cmd.pc = "uninstall"
    /\ \A p \in Producers : ppc[p] = "idle"
    /\ cmd' = [cmd EXCEPT !.pc = "delete", !.uninstallErr = err]
    /\ UNCHANGED uiVars

\* cmd.deleteComponentsListFile() and the return statements after it:
\* errors.Wrap(err, uninstallErr.Error()) calls a method of a nil error when
\* the uninstallation gave none, which panics
RunDeleteComponentsListFile(ok) ==
    /\ cmd.pc = "delete"
    /\ cmd' = IF ok
              THEN RunReturns([cmd EXCEPT !.deleteErr = "nil"],
                              IF cmd.uninstallErr = "nil" THEN "success" ELSE "error")
              ELSE RunReturns([cmd EXCEPT !.deleteErr = "err"],
                              IF cmd.uninstallErr = "nil" THEN "panic" ELSE "error")
    /\ UNCHANGED uiVars

\* the deferred ui.Stop() is called: on a return and on a panic of Run()
RunDeferredStop ==
    /\ cmd.pc = "defers"
    /\ cmd.deferStop
    /\ spc[Owner] = "idle"
    /\ StopCall(Owner)

\* Run() hands its result to the caller once its deferred calls have returned
RunReturn ==
    /\ cmd.pc = "defers"
    /\ cmd.deferStop => spc[Owner] = "returned"
    /\ cmd' = [cmd EXCEPT !.pc = "done"]
    /\ UNCHANGED uiVars

\* One call of Run() with the consumer goroutine of its controller
NextRun ==
    \/ \E verbose \in BOOLEAN, ok \in BOOLEAN : RunValidateFlags(verbose, ok)
    \/ \E ok \in BOOLEAN : RunNewFromConfig(ok)
    \/ \E ok \in BOOLEAN : RunStartUI(ok)
    \/ RunUIStart
    \/ RunDeferStop
    \/ \E ok \in BOOLEAN : RunRetrieveKymaMetadata(ok)
    \/ \E ok \in BOOLEAN : RunCloneSources(ok)
    \/ \E ok \in BOOLEAN : RunRecoverComponentsListFile(ok)
    \/ \E ok \in BOOLEAN : RunUpdateChannel(ok)
    \/ \E ok \in BOOLEAN : RunNewDeployment(ok)
    \/ \E p \in Producers : RunUninstallSends(p)
    \/ \E p \in Producers, e \in PhaseUpdates : ConsumerReceive(p, e)
    \/ \E err \in {"nil", "err"} : RunUninstallReturns(err)
    \/ \E ok \in BOOLEAN : RunDeleteComponentsListFile(ok)
    \/ RunDeferredStop
    \/ ConsumerExit
    \/ StopReturn(Owner)
    \/ RunReturn

\* Run() builds asyncui.AsyncUI{StepFactory: &cmd.Factory}: Errors is nil
InitRun == Init /\ Errors = "nil"

RunSpec == InitRun /\ [][NextRun]_vars

(* ------------------------------------------------------------------ *)
(* Vocabulary of the properties                                       *)
(* ------------------------------------------------------------------ *)

Handled == Len(accepted) > 0
LastIdx == Len(accepted)
Last    == accepted[LastIdx]

\* what the handling of the last accepted event added
newOps   == SubSeq(ops, Len(before.ops) + 1, Len(ops))
newErrs  == SubSeq(errs, Len(before.errs) + 1, Len(errs))
newSteps == SubSeq(steps, Len(before.steps) + 1, Len(steps))

IsTerminalOp(o) == o.op \in {"Success", "Failure"}

\* the positions in os of the terminal operations on Step id
TerminalOps(os, id) == {i \in DOMAIN os : os[i].step = id /\ IsTerminalOp(os[i])}

\* the Steps that os shows created by a Start event for phase
PhaseSteps(os, phase) ==
    {os[i].step : i \in {j \in DOMAIN os : /\ os[j].op = "NewStep"
                                           /\ accepted[os[j].ev].Event = ProcessStart
                                           /\ accepted[os[j].ev].Phase = phase}}

\* the Steps of phase that are open: created and not yet marked Success or Failure
OpenSteps(os, phase) == {id \in PhaseSteps(os, phase) : TerminalOps(os, id) = {}}

HasComponent(e)    == e.Component.Name # ""
IsPhaseTerminal(e) == ~HasComponent(e) /\ e.Event \notin {ProcessStart, ProcessRunning}

IsIllegalState(err) ==
    \E phase \in Phases : err \in {errStepExists(phase), errStepMissing(phase)}

\* the entries of the sink caused by event k
SinkFor(k) == {i \in DOMAIN sink : sink[i].ev = k}

\* with an Errors channel, the error of the last event was handed to sendError
\* and is sent exactly once: the send is pending or it has been received
ForwardedOnce(err) ==
    Errors = "chan" =>
        \/ cpc = "sendErr" /\ pendingErr = err /\ SinkFor(LastIdx) = {}
        \/ cpc # "sendErr" /\ \E i \in DOMAIN sink :
                                  SinkFor(LastIdx) = {i} /\ sink[i].err = err

NothingForwarded == cpc # "sendErr" /\ SinkFor(LastIdx) = {}

(* ------------------------------------------------------------------ *)
(* C1  Order preservation                                             *)
(* ------------------------------------------------------------------ *)

\* event k is one that makes the consumer call Success or Failure: it is not a
\* Start, not a Running without component, and its phase got an entry earlier
CausesTerminal(k) ==
    /\ accepted[k].Event # ProcessStart
    /\ ~(accepted[k].Event = ProcessRunning /\ ~HasComponent(accepted[k]))
    /\ \E j \in 1..(k - 1) : /\ accepted[j].Event = ProcessStart
                             /\ accepted[j].Phase = accepted[k].Phase

\* C1: the Step operations are made in the order in which the events causing
\* them were accepted, and every accepted event that causes a terminal
\* operation has exactly one, none is dropped, merged or repeated.
C1_OrderPreserved ==
    /\ \A i, j \in DOMAIN ops : i < j => ops[i].ev <= ops[j].ev
    /\ \A i \in DOMAIN ops : ops[i].ev \in DOMAIN accepted
    /\ \A k \in DOMAIN accepted :
          Cardinality({i \in DOMAIN ops : ops[i].ev = k /\ IsTerminalOp(ops[i])})
              = IF CausesTerminal(k) THEN 1 ELSE 0

C1_Witness ==
    /\ Len(accepted) = 3
    /\ CausesTerminal(2) /\ CausesTerminal(3)
    /\ accepted[2].Event = ProcessRunning
    /\ \E i, j \in DOMAIN ops : /\ i < j
                                /\ IsTerminalOp(ops[i]) /\ ops[i].ev = 2
                                /\ IsTerminalOp(ops[j]) /\ ops[j].ev = 3

(* ------------------------------------------------------------------ *)
(* C2  At most one open step per phase                                *)
(* ------------------------------------------------------------------ *)

SecondStart ==
    /\ Handled
    /\ Last.Event = ProcessStart
    /\ OpenSteps(before.ops, Last.Phase) # {}

\* C2: no phase ever has two open Steps, and a Start for a phase that has an
\* open Step yields exactly one IllegalState error, no NewStep call, and
\* leaves the open Step where it is.
C2_OneOpenStepPerPhase ==
    /\ \A phase \in Phases : Cardinality(OpenSteps(ops, phase)) <= 1
    /\ SecondStart =>
          /\ Len(newErrs) = 1
          /\ IsIllegalState(newErrs[1].err)
          /\ newErrs[1].err = errStepExists(Last.Phase)
          /\ newOps = <<>>
          /\ newSteps = <<>>
          /\ ongoingSteps = before.ongoingSteps
          /\ OpenSteps(ops, Last.Phase) = OpenSteps(before.ops, Last.Phase)

C2_Witness == SecondStart /\ Len(errs) = 1 /\ Len(steps) = 1

(* ------------------------------------------------------------------ *)
(* C3  Stop() drains before returning                                 *)
(* ------------------------------------------------------------------ *)

\* C3: when a Stop() call has returned, the consumer has left its loop with
\* every accepted event handled and every error handed off, and the context is
\* done only once the consumer has exited on the closed channel.
C3_StopDrains ==
    /\ spc[Owner] = "returned" =>
          /\ cpc = "done"
          /\ context = "done"
          /\ pendingErr = NoErr
          /\ Errors = "chan" => sink = errs
          /\ \A p \in Producers : ppc[p] = "sending" => updates = "closed"
    /\ context = "done" => cpc = "done" /\ updates = "closed"

C3_Witness ==
    /\ spc[Owner] = "returned"
    /\ Len(accepted) = 3
    /\ Len(sink) >= 1
    /\ Len(ops) >= 2

(* ------------------------------------------------------------------ *)
(* C4  Shutdown without deadlock                                      *)
(* ------------------------------------------------------------------ *)

\* C4: a Stop() call that waits for the consumer eventually returns (unless a
\* producer's send on the closed channel ends the process).
C4_StopReturns ==
    (spc[Owner] = "waiting") ~> (spc[Owner] = "returned" \/ panicMsg # "")

(* ------------------------------------------------------------------ *)
(* C5  Idempotent shutdown                                            *)
(* ------------------------------------------------------------------ *)

\* C5: on a started controller no Stop() call panics, and a Stop() call made
\* after one has returned returns at once: it closes nothing, waits for
\* nothing and changes nothing of the controller.
C5_SecondStopIsNoOp ==
    [][stopCalls' = stopCalls + 1 =>
          /\ updates # "nil" => panicMsg' = ""
          /\ spc[Owner] = "returned" =>
                /\ spc'[Owner] = "returned"
                /\ UNCHANGED <<Errors, orphans, cmd, updates, context, stopped, mu, cpc,
                               pendingErr, rendered, sink, panicMsg>>]_vars

C5_Witness == stopCalls = 2 /\ spc[Owner] = "returned" /\ panicMsg = ""

(* ------------------------------------------------------------------ *)
(* C6  A phase terminal event clears the phase's open step            *)
(* ------------------------------------------------------------------ *)

\* C6: after a terminal event without component for a phase that has an entry,
\* the phase has no entry any more; and a Start for a phase none of whose Steps
\* is open makes one new Step and no error.
C6_TerminalClearsStep ==
    /\ (Handled /\ IsPhaseTerminal(Last) /\ exists(before.ongoingSteps, Last.Phase))
          => ~exists(ongoingSteps, Last.Phase)
    /\ (Handled /\ Last.Event = ProcessStart /\ OpenSteps(before.ops, Last.Phase) = {})
          => /\ newErrs = <<>>
             /\ Len(newSteps) = 1

(* ------------------------------------------------------------------ *)
(* C7  Exactly one terminal operation per Step                        *)
(* ------------------------------------------------------------------ *)

\* C7: no Step gets more than one Success or Failure call in all.
C7_OneTerminalPerStep ==
    \A id \in DOMAIN steps : Cardinality(TerminalOps(ops, id)) <= 1

(* ------------------------------------------------------------------ *)
(* C8  Phase terminal event without an open step                      *)
(* ------------------------------------------------------------------ *)

\* C8: a terminal event without component for a phase that has no open Step
\* (never started, or closed already) yields exactly one IllegalState error and
\* no call on the factory or on any Step.
C8_TerminalWithoutOpenStep ==
    (Handled /\ IsPhaseTerminal(Last) /\ OpenSteps(before.ops, Last.Phase) = {})
        => /\ Len(newErrs) = 1
           /\ IsIllegalState(newErrs[1].err)
           /\ newOps = <<>>
           /\ newSteps = <<>>

(* ------------------------------------------------------------------ *)
(* C9  Phase failure                                                  *)
(* ------------------------------------------------------------------ *)

PhaseTerminalOnOpen ==
    /\ Handled
    /\ IsPhaseTerminal(Last)
    /\ OpenSteps(before.ops, Last.Phase) # {}

\* C9: a terminal event without component for a phase with an open Step makes
\* one call on that Step: Success and no error when the event is
\* ProcessFinished, else Failure and one error that carries the event value,
\* sent once on Errors when there is such a channel.
C9_PhaseFailure ==
    PhaseTerminalOnOpen =>
        LET id == before.ongoingSteps[Last.Phase] IN
        /\ OpenSteps(before.ops, Last.Phase) = {id}
        /\ newSteps = <<>>
        /\ IF Last.Event = ProcessFinished
           THEN /\ newOps = <<[op |-> "Success", step |-> id, ev |-> LastIdx]>>
                /\ newErrs = <<>>
                /\ NothingForwarded
           ELSE /\ newOps = <<[op |-> "Failure", step |-> id, ev |-> LastIdx]>>
                /\ newErrs = <<[ev |-> LastIdx,
                                err |-> errPhaseFailed(Last.Phase, Last.Event)]>>
                /\ ForwardedOnce(errPhaseFailed(Last.Phase, Last.Event))

C9_Witness ==
    /\ PhaseTerminalOnOpen
    /\ Last.Event = ProcessFailed
    /\ Errors = "chan"
    /\ Len(sink) = 1
    /\ sink[1].err = "Deployment phase 'InstallComponents' failed: Failed"

(* ------------------------------------------------------------------ *)
(* C10  Component precondition                                        *)
(* ------------------------------------------------------------------ *)

NeverStarted(phase) ==
    \A j \in 1..(LastIdx - 1) :
        ~(accepted[j].Event = ProcessStart /\ accepted[j].Phase = phase)

ComponentBeforeStart ==
    /\ Handled
    /\ HasComponent(Last)
    /\ NeverStarted(Last.Phase)

IllegalStateOnly ==
    /\ newErrs = <<[ev |-> LastIdx, err |-> errStepMissing(Last.Phase)]>>
    /\ ForwardedOnce(errStepMissing(Last.Phase))
    /\ newOps = <<>>
    /\ newSteps = <<>>
    /\ ongoingSteps = before.ongoingSteps

PhaseClosed(os, phase) == PhaseSteps(os, phase) # {} /\ OpenSteps(os, phase) = {}

\* C11: an event with a component for a phase that a terminal event has closed
\* (and that was not started again) yields exactly one IllegalState error and
\* no component Step.
C11_ComponentAfterClose ==
    (Handled /\ HasComponent(Last) /\ PhaseClosed(before.ops, Last.Phase))
        => /\ Len(newErrs) = 1
           /\ IsIllegalState(newErrs[1].err)
           /\ newSteps = <<>>
           /\ newOps = <<>>

(* ------------------------------------------------------------------ *)
(* C12  Component rendering                                           *)
(* ------------------------------------------------------------------ *)

ComponentOnOpen ==
    /\ Handled
    /\ HasComponent(Last)
    /\ Last.Event # ProcessStart
    /\ OpenSteps(before.ops, Last.Phase) # {}

\* C12: a Running or terminal event with a component, for a phase with an open
\* Step, makes one NewStep call labelled with the component name and at once
\* one terminal call on the new Step: Success and no error for status ok,
\* Failure and one error naming the component (sent once on Errors when there
\* is such a channel) for status error.
C12_ComponentRendering ==
    ComponentOnOpen =>
        LET id   == Len(before.steps) + 1
            name == Last.Component.Name
        IN
        /\ newSteps = <<"Deploying component '" \o name \o "'">>
        /\ Len(newOps) = 2
        /\ newOps[1] = [op |-> "NewStep", step |-> id, ev |-> LastIdx]
        /\ ongoingSteps = before.ongoingSteps
        /\ IF Last.Component.Status = StatusError
           THEN /\ newOps[2] = [op |-> "Failure", step |-> id, ev |-> LastIdx]
                /\ newErrs = <<[ev |-> LastIdx, err |-> errComponentFailed(name)]>>
                /\ ForwardedOnce(errComponentFailed(name))
           ELSE /\ newOps[2] = [op |-> "Success", step |-> id, ev |-> LastIdx]
                /\ newErrs = <<>>
                /\ NothingForwarded

C12_Witness ==
    /\ ComponentOnOpen
    /\ Last.Event = ProcessFinished
    /\ Last.Component.Status = StatusError
    /\ Errors = "chan"
    /\ Len(sink) = 1
    /\ sink[1].err = "Deployment of component 'core' failed"
    /\ steps = <<"Deploying Kyma", "Deploying component 'core'">>

(* ------------------------------------------------------------------ *)
(* C13  Protocol-conforming runs                                      *)
(* ------------------------------------------------------------------ *)

PhaseIdx(phase) == {k \in DOMAIN accepted : accepted[k].Phase = phase}

IsOkRunning(e) ==
    e.Event = ProcessRunning /\ HasComponent(e) /\ e.Component.Status = StatusOk

IsPlain(e, event) == e.Event = event /\ ~HasComponent(e)

\* the events accepted for phase are the beginning of: Start, any number of
\* Running events with a component of status ok, Finished
ConformingPhase(phase) ==
    \A k \in PhaseIdx(phase) :
        LET earlier == {j \in PhaseIdx(phase) : j < k} IN
        IF earlier = {}
        THEN IsPlain(accepted[k], ProcessStart)
        ELSE /\ \A j \in earlier : ~IsPlain(accepted[j], ProcessFinished)
             /\ IsOkRunning(accepted[k]) \/ IsPlain(accepted[k], ProcessFinished)

Conforming == \A phase \in Phases : ConformingPhase(phase)

OpsOf(k) == SelectSeq(ops, LAMBDA o : o.ev = k)

\* C13: as long as every phase follows Start, Running(component ok)*, Finished,
\* no error arises or reaches the sink, every phase has one Step, marked
\* Success once and only by its Finished event, and every component event
\* creates one Step and marks it Success at once.
C13_ConformingRunsRenderCleanly ==
    Conforming =>
        /\ errs = <<>> /\ sink = <<>> /\ cpc # "sendErr"
        /\ \A phase \in Phases :
              /\ Cardinality(PhaseSteps(ops, phase))
                    = IF PhaseIdx(phase) = {} THEN 0 ELSE 1
              /\ \A id \in PhaseSteps(ops, phase) :
                    /\ steps[id] = stepMsg(phase)
                    /\ \A i \in TerminalOps(ops, id) :
                          /\ ops[i].op = "Success"
                          /\ IsPlain(accepted[ops[i].ev], ProcessFinished)
                          /\ accepted[ops[i].ev].Phase = phase
        /\ \A k \in DOMAIN accepted :
              /\ IsPlain(accepted[k], ProcessFinished) =>
                    \E id \in PhaseSteps(ops, accepted[k].Phase) :
                        OpsOf(k) = <<[op |-> "Success", step |-> id, ev |-> k]>>
              /\ IsPlain(accepted[k], ProcessStart) =>
                    \E id \in PhaseSteps(ops, accepted[k].Phase) :
                        OpsOf(k) = <<[op |-> "NewStep", step |-> id, ev |-> k]>>
              /\ IsOkRunning(accepted[k]) =>
                    \E id \in DOMAIN steps :
                        /\ steps[id] = deployComponentMsg(accepted[k].Component.Name)
                        /\ OpsOf(k) = <<[op |-> "NewStep", step |-> id, ev |-> k],
                                        [op |-> "Success", step |-> id, ev |-> k]>>
        /\ Len(steps) = Cardinality({k \in DOMAIN accepted :
                                        accepted[k].Event # ProcessFinished})

\* Scenario A: Start, Running(core, ok), Finished for InstallComponents
C13_Witness ==
    /\ Conforming
    /\ Len(accepted) = 3
    /\ IsPlain(accepted[1], ProcessStart)
    /\ IsOkRunning(accepted[2])
    /\ IsPlain(accepted[3], ProcessFinished)
    /\ \A k \in 1..3 : accepted[k].Phase = InstallComponents
    /\ steps = <<"Deploying Kyma", "Deploying component 'core'">>
    /\ ops = <<[op |-> "NewStep", step |-> 1, ev |-> 1],
               [op |-> "NewStep", step |-> 2, ev |-> 2],
               [op |-> "Success", step |-> 2, ev |-> 2],
               [op |-> "Success", step |-> 1, ev |-> 3]>>

(* ------------------------------------------------------------------ *)
(* C14  Rendering errors are non-fatal                                *)
(* ------------------------------------------------------------------ *)

\* C14: whatever errors the dispatch returned, the consumer is in its loop
\* (receiving, or handing an error to Errors) as long as the update channel is
\* open; it has left the loop, and cancelled the context, only when the
\* channel is closed, and the channel is closed only by Stop().
C14_ErrorsNonFatal ==
    /\ updates = "open" => cpc \in {"recv", "sendErr"} /\ context = "active"
    /\ cpc = "done" => updates = "closed" /\ stopped
    /\ context = "done" <=> cpc = "done"

\* after an IllegalState error the consumer rendered a Start and a failed
\* component, both errors were received from Errors, and the consumer is
\* receiving on the open channel
C14_Witness ==
    /\ Len(accepted) = 3
    /\ Errors = "chan"
    /\ Len(errs) = 2
    /\ errs[1].ev = 1 /\ IsIllegalState(errs[1].err)
    /\ errs[2].ev = 3 /\ errs[2].err = errComponentFailed("core")
    /\ Len(sink) = 2
    /\ \E i \in DOMAIN ops : ops[i].ev = 3 /\ ops[i].op = "Failure"
    /\ updates = "open"
    /\ cpc = "recv"

(* ------------------------------------------------------------------ *)
(* C15  Producers are not left blocked after an error                 *)
(* ------------------------------------------------------------------ *)

\* C15: once the dispatch of some event has returned an error, a producer
\* sending on the update channel is eventually served (its event is accepted
\* and handled) unless the channel gets closed, with and without Errors.
C15_ProducersServedAfterError ==
    \A p \in Producers :
        (errs # <<>> /\ ppc[p] = "sending" /\ updates = "open")
            ~> (ppc[p] # "sending" \/ updates # "open")

(* ------------------------------------------------------------------ *)
(* C16  Absent error sink                                             *)
(* ------------------------------------------------------------------ *)

\* the consumer's rendering state after the first k accepted events, computed
\* from the events alone
RECURSIVE Replay(_)
Replay(k) ==
    IF k = 0
    THEN [ongoingSteps |-> EmptyMap, steps |-> <<>>, ops |-> <<>>, err |-> NoErr]
    ELSE handleEvent(accepted[k], [Replay(k - 1) EXCEPT !.err = NoErr], k)

\* C16: with Errors = nil no error is ever sent and the consumer never waits
\* in sendError; the Step operations are a function of the accepted events
\* alone, so they are the ones made with an Errors channel that is drained.
C16_AbsentSink ==
    /\ Errors = "nil" => /\ sink = <<>>
                         /\ cpc # "sendErr"
                         /\ pendingErr = NoErr
    /\ LET r == Replay(Len(accepted)) IN ops = r.ops /\ steps = r.steps

C16_Witness ==
    /\ Errors = "nil"
    /\ Len(accepted) = 3
    /\ Len(errs) = 2
    /\ ~IsIllegalState(errs[2].err)
    /\ ops # <<>>
    /\ cpc = "recv"

(* ------------------------------------------------------------------ *)
(* C17  A second Start()                                              *)
(* ------------------------------------------------------------------ *)

\* the consumer goroutines that have not returned
LiveConsumers == orphans + (IF cpc \in {"recv", "sendErr"} THEN 1 ELSE 0)

\* C17: a controller instance never has more than one consumer task, and that
\* task reads the channel in ui.updates: a second Start() launches none.
C17_OneConsumer == LiveConsumers <= 1 /\ orphans = 0

(* ------------------------------------------------------------------ *)
(* C18  Stop() without Start()                                        *)
(* ------------------------------------------------------------------ *)

\* C18: a Stop() call on a controller on which Start() has not run does not
\* panic (and does not block): as long as there is no update channel, the
\* program has not panicked.
C18_StopWithoutStartIsSafe == updates = "nil" => panicMsg = ""

(* ------------------------------------------------------------------ *)
(* C19  Concurrent Stop() calls                                       *)
(* ------------------------------------------------------------------ *)

\* C19: with several callers in Stop() at once the channel is closed once,
\* nobody panics, and every caller that is in Stop() returns.
C19_ConcurrentStopsReturn ==
    \A s \in Stoppers :
        (spc[s] \in {"locking", "waiting"} /\ panicMsg = "")
            ~> (spc[s] = "returned" \/ panicMsg # "")

(* ------------------------------------------------------------------ *)
(* C20  Inert after Stop()                                            *)
(* ------------------------------------------------------------------ *)

\* the Stop() call that closed the channel has returned (it holds ui.mu until
\* it returns)
StopHasReturned == stopped /\ mu = 0

\* C20: once Stop() has returned no consumer task is running, whatever is
\* called on the instance afterwards.
C20_InertAfterStop == StopHasReturned => LiveConsumers = 0

(* ------------------------------------------------------------------ *)
(* C21  Send after close                                              *)
(* ------------------------------------------------------------------ *)

\* C21: a send ends in one of two ways only.  On the open channel it ends when
\* the consumer accepts the event; on the closed channel it fails (the Go
\* runtime panics with "send on closed channel").  Once the channel is
\* closed no event is accepted or rendered and the channel, the map and the
\* stopped flag stay as they are.
C21_SendAfterCloseFails ==
    [][ /\ \A p \in Producers :
              (ppc[p] = "sending" /\ ppc'[p] # "sending") =>
                  IF updates = "open"
                  THEN /\ ppc'[p] = "idle"
                       /\ Len(accepted') = Len(accepted) + 1
                       /\ panicMsg' = ""
                  ELSE /\ updates = "closed"
                       /\ ppc'[p] = "panicked"
                       /\ panicMsg' = "send on closed channel"
        /\ updates = "closed" =>
              /\ accepted' = accepted
              /\ ops' = ops /\ steps' = steps /\ ongoingSteps' = ongoingSteps
              /\ updates' = "closed" /\ stopped' = stopped
      ]_vars

\* a send that was pending when Stop() closed the channel has failed, after
\* another event had been accepted and rendered
C21_Witness ==
    /\ updates = "closed"
    /\ \E p \in Producers : ppc[p] = "panicked"
    /\ panicMsg = "send on closed channel"
    /\ Len(accepted) >= 1
    /\ ops # <<>>

(* ------------------------------------------------------------------ *)
(* C22  No event loss                                                 *)
(* ------------------------------------------------------------------ *)

NewStepsOf(k) == {i \in DOMAIN ops : ops[i].ev = k /\ ops[i].op = "NewStep"}

\* C22 as stated: when Stop() has returned, every event accepted before the
\* close has produced exactly one NewStep call.
C22_Original ==
    StopHasReturned => \A k \in DOMAIN accepted : Cardinality(NewStepsOf(k)) = 1

\* event k is one that creates a Step: the first Start of its phase, or an
\* event other than Start with a component, for a phase that had a Start
CreatesStep(k) ==
    LET e        == accepted[k]
        startedB == \E j \in 1..(k - 1) : /\ accepted[j].Event = ProcessStart
                                          /\ accepted[j].Phase = e.Phase
    IN IF e.Event = ProcessStart THEN ~startedB ELSE HasComponent(e) /\ startedB

\* C22 amended: when Stop() has returned, every event accepted before the
\* close has been handled completely: the operations made are those of the
\* dispatch of all accepted events, an event has one NewStep call when it
\* creates a Step and none otherwise, and no error hand-off is pending.
C22_AcceptedEventsRendered ==
    StopHasReturned =>
        /\ cpc = "done"
        /\ ops = Replay(Len(accepted)).ops
        /\ \A k \in DOMAIN accepted :
              Cardinality(NewStepsOf(k)) = IF CreatesStep(k) THEN 1 ELSE 0
        /\ \A k \in DOMAIN accepted :
              (CausesTerminal(k) \/ CreatesStep(k)) => OpsOf(k) # <<>>
        /\ pendingErr = NoErr

C22_Witness ==
    /\ StopHasReturned
    /\ spc[Owner] = "returned"
    /\ Len(accepted) = 3
    /\ CreatesStep(1) /\ CreatesStep(2)
    /\ ~CreatesStep(3) /\ CausesTerminal(3)
    /\ Cardinality(NewStepsOf(3)) = 0
    /\ Len(ops) = 4

(* ------------------------------------------------------------------ *)
(* C23  Events with a component                                       *)
(* ------------------------------------------------------------------ *)

\* the last event made a Step for its component and marked it at once
CreateAndTerminate ==
    LET id == Len(before.steps) + 1 IN
    /\ newSteps = <<deployComponentMsg(Last.Component.Name)>>
    /\ Len(newOps) = 2
    /\ newOps[1] = [op |-> "NewStep", step |-> id, ev |-> LastIdx]
    /\ newOps[2].step = id /\ newOps[2].ev = LastIdx /\ IsTerminalOp(newOps[2])

\* the last event neither opened nor closed the Step of a phase
PhaseStepsUntouched ==
    /\ ongoingSteps = before.ongoingSteps
    /\ \A phase \in Phases :
          /\ PhaseSteps(ops, phase) = PhaseSteps(before.ops, phase)
          /\ OpenSteps(ops, phase) = OpenSteps(before.ops, phase)

Before == [ongoingSteps |-> before.ongoingSteps, steps |-> before.steps,
           ops |-> before.ops, err |-> NoErr]

\* the outcome of the last accepted event is the one r
SameOutcome(r) ==
    /\ ops = r.ops /\ steps = r.steps /\ ongoingSteps = r.ongoingSteps
    /\ newErrs = IF r.err = NoErr THEN <<>> ELSE <<[ev |-> LastIdx, err |-> r.err]>>

\* C24: from every state the controller reaches, the handling of a Running
\* event and of a terminal event (Finished, Failed) with the same phase and
\* the same component gives the same Step calls, the same error and the same
\* map: what the last accepted event with a component did is what the
\* dispatch of each of the other two event values does from the same state.
C24_RunningAsTerminal ==
    (Handled /\ HasComponent(Last) /\ Last.Event # ProcessStart) =>
        \A event \in ProcessEvents \ {ProcessStart, Last.Event} :
            SameOutcome(handleEvent([Last EXCEPT !.Event = event], Before, LastIdx))

\* a Failed event with a failed component was rendered, from a state with an
\* entry for its phase, as a Running event is
C24_Witness ==
    /\ Len(accepted) = 3
    /\ Last.Event = ProcessFailed
    /\ Last.Component = [Name |-> "core", Status |-> StatusError]
    /\ exists(before.ongoingSteps, Last.Phase)
    /\ SameOutcome(handleEvent([Last EXCEPT !.Event = ProcessRunning], Before, LastIdx))
    /\ Len(newOps) = 2
    /\ newOps[2].op = "Failure"
    /\ newErrs = <<[ev |-> 3, err |-> errComponentFailed("core")]>>

(* ------------------------------------------------------------------ *)
(* C25  The controller only sends on Errors                           *)
(* ------------------------------------------------------------------ *)

\* C25: Errors is what the caller configured, never closed by the controller,
\* also after Stop() has returned; and the controller has taken no value from
\* it: the errors the caller received are the errors the consumer sent, in
\* order, all of them but the one whose send is pending.
C25_OnlySendsOnErrors ==
    /\ Errors \in {"nil", "chan"}
    /\ Errors = "chan" =>
          /\ Len(sink) = Len(errs) - (IF cpc = "sendErr" THEN 1 ELSE 0)
          /\ sink = SubSeq(errs, 1, Len(sink))
          /\ cpc = "sendErr" => pendingErr = errs[Len(errs)].err

C25_Witness ==
    /\ Errors = "chan"
    /\ StopHasReturned
    /\ cpc = "done"
    /\ Len(sink) = 2
    /\ sink = errs

(* ------------------------------------------------------------------ *)
(* C26  The lock during the wait of Stop()                            *)
(* ------------------------------------------------------------------ *)

\* C26: a Stop() caller waiting for the context does not hold ui.mu, so a
\* caller that calls Stop() meanwhile is not kept in Lock(): it sees stopped
\* and returns.
C26_LockFreeWhileWaiting ==
    \A s \in Stoppers :
        /\ spc[s] = "waiting" => mu = 0
        /\ stopped => spc[s] # "locking"

(* ------------------------------------------------------------------ *)
(* C27  One event in flight                                           *)
(* ------------------------------------------------------------------ *)

\* C27: the handling of an event (its Step operations and the hand-off of its
\* error) is complete before the next event is accepted: the operations made
\* since the last event was accepted all belong to it, an error whose send is
\* pending is the error of the last accepted event, and every error was
\* received before any later event was accepted.
C27_OneEventInFlight ==
    /\ \A i \in DOMAIN ops :
          IF i <= Len(before.ops) THEN ops[i].ev < LastIdx ELSE ops[i].ev = LastIdx
    /\ cpc = "sendErr" => /\ errs # <<>>
                          /\ errs[Len(errs)].ev = LastIdx
                          /\ pendingErr = errs[Len(errs)].err
    /\ Errors = "chan" =>
          /\ Len(sink) <= Len(errs)
          /\ \A i \in DOMAIN sink : sink[i].ev = errs[i].ev

\* two events gave an error, each error was received before the next event
\* was accepted
C27_Witness ==
    /\ Errors = "chan"
    /\ Len(accepted) = 3
    /\ Len(sink) = 2
    /\ sink[1].ev = 1
    /\ sink[2].ev = 2
    /\ \E i \in DOMAIN ops : ops[i].ev = 3

(* ------------------------------------------------------------------ *)
(* C28  Ownership of the map and of the stopped flag                  *)
(* ------------------------------------------------------------------ *)

\* a step of the consumer goroutine: it takes an event, completes an error
\* send or returns
ConsumerStep == accepted' # accepted \/ cpc' # cpc

\* a step of a Stop() caller
StopStep == spc' # spc

\* a step of a producer alone: a send begins or fails
ProducerStep == ppc' # ppc /\ accepted' = accepted

\* C28: the map changes only in a step of the consumer, in which stopped does
\* not change; stopped changes only in a step of a Stop() caller that holds
\* ui.mu, in which the map does not change; steps of producers change neither.
C28_Ownership ==
    [][ /\ ongoingSteps' # ongoingSteps => ConsumerStep /\ ~StopStep
        /\ stopped' # stopped =>
              /\ StopStep /\ ~ConsumerStep
              /\ mu = 0
              /\ \E s \in Stoppers : mu' = s /\ spc[s] # spc'[s]
        /\ ConsumerStep => stopped' = stopped
        /\ StopStep => ongoingSteps' = ongoingSteps
        /\ ProducerStep => ongoingSteps' = ongoingSteps /\ stopped' = stopped
      ]_vars

\* the consumer has written the map, one caller has set stopped and waits
\* holding the lock, another caller is in Lock()
C28_Witness ==
    /\ exists(ongoingSteps, InstallComponents)
    /\ stopped
    /\ \E s, t \in Stoppers : /\ spc[s] = "waiting" /\ mu = s
                              /\ spc[t] = "locking"
    /\ \E p \in Producers : ppc[p] = "sending"

(* ------------------------------------------------------------------ *)
(* C29  IllegalState skips the event                                  *)
(* ------------------------------------------------------------------ *)

\* the handling of event k gave an IllegalState error
IllegalAt(k) == \E i \in DOMAIN errs : errs[i].ev = k /\ IsIllegalState(errs[i].err)

\* C29: an event answered with an IllegalState error leaves the map as it was
\* and causes no Step call and exactly one error, sent once when there is an
\* Errors channel; the event after it is handled as the dispatch prescribes
\* on the state the skipped event left untouched.
C29_IllegalStateSkips ==
    /\ (Handled /\ IllegalAt(LastIdx)) =>
          /\ ongoingSteps = before.ongoingSteps
          /\ newOps = <<>> /\ newSteps = <<>>
          /\ Len(newErrs) = 1
          /\ ForwardedOnce(newErrs[1].err)
          /\ \/ Last.Event = ProcessStart /\ exists(before.ongoingSteps, Last.Phase)
             \/ Last.Event # ProcessStart /\ ~exists(before.ongoingSteps, Last.Phase)
    /\ (LastIdx >= 2 /\ IllegalAt(LastIdx - 1)) =>
          LET r == handleEvent(Last, [ongoingSteps |-> before.ongoingSteps,
                                      steps |-> before.steps, ops |-> before.ops,
                                      err |-> NoErr], LastIdx)
          IN /\ ops = r.ops /\ steps = r.steps /\ ongoingSteps = r.ongoingSteps
             /\ \A i \in DOMAIN before.ops : before.ops[i].ev < LastIdx - 1

\* a Start for a phase with an open Step was skipped with one error, received
\* from Errors, and the Finished event after it closed the phase's Step
C29_Witness ==
    /\ Errors = "chan"
    /\ Len(accepted) = 3
    /\ accepted[2].Event = ProcessStart
    /\ IllegalAt(2)
    /\ Len(errs) = 1 /\ Len(sink) = 1
    /\ IsPlain(Last, ProcessFinished)
    /\ ops = <<[op |-> "NewStep", step |-> 1, ev |-> 1],
               [op |-> "Success", step |-> 1, ev |-> 3]>>

(* ------------------------------------------------------------------ *)
(* C30  Running without component                                     *)
(* ------------------------------------------------------------------ *)

\* C30: a Running event without component changes nothing: no Step, no Step
\* call, no error and no send on Errors, the map as before, whether or not its
\* phase has an entry or an open Step.
C30_PlainRunningIsNoOp ==
    (Handled /\ IsPlain(Last, ProcessRunning)) =>
        /\ newOps = <<>>
        /\ newSteps = <<>>
        /\ newErrs = <<>>
        /\ ongoingSteps = before.ongoingSteps
        /\ NothingForwarded
        /\ pendingErr = NoErr

\* a Running event without component for a phase that was never started,
\* handled after another phase got its Step
C30_Witness ==
    /\ Len(accepted) = 2
    /\ IsPlain(Last, ProcessRunning)
    /\ ~exists(ongoingSteps, Last.Phase)
    /\ ops = <<[op |-> "NewStep", step |-> 1, ev |-> 1]>>
    /\ errs = <<>>
    /\ Errors = "chan"
    /\ cpc = "recv"

(* ------------------------------------------------------------------ *)
(* C31  Component events and the phase state                          *)
(* ------------------------------------------------------------------ *)

\* the Steps recorded in map m
Recorded(m) == {m[phase] : phase \in DOMAIN m}

\* C31: the handling of a Running or terminal event with a component leaves
\* every entry of the map as it was (none added, removed or replaced) and
\* calls neither Success nor Failure on a Step recorded for a phase, whatever
\* the component's status.
C31_ComponentLeavesPhaseState ==
    (Handled /\ HasComponent(Last) /\ Last.Event # ProcessStart) =>
        /\ DOMAIN ongoingSteps = DOMAIN before.ongoingSteps
        /\ \A phase \in DOMAIN ongoingSteps :
              ongoingSteps[phase] = before.ongoingSteps[phase]
        /\ \A i \in DOMAIN newOps :
              IsTerminalOp(newOps[i]) => newOps[i].step \notin Recorded(ongoingSteps)

\* a failed component was rendered while two phases have an entry
C31_Witness ==
    /\ Len(accepted) = 3
    /\ HasComponent(Last)
    /\ Last.Component.Status = StatusError
    /\ Last.Event # ProcessStart
    /\ Cardinality(DOMAIN ongoingSteps) = 2
    /\ Len(newOps) = 2
    /\ newOps[2] = [op |-> "Failure", step |-> 3, ev |-> 3]

(* ------------------------------------------------------------------ *)
(* C32  Independence of the phases                                    *)
(* ------------------------------------------------------------------ *)

\* C32: the handling of an event for one phase leaves the entry of every
\* other phase as it was and makes no call on the Step of another phase; the
\* Steps of different phases can be open together.
C32_PhasesIndependent ==
    Handled =>
        \A Q \in Phases \ {Last.Phase} :
            /\ exists(ongoingSteps, Q) <=> exists(before.ongoingSteps, Q)
            /\ exists(ongoingSteps, Q) =>
                  /\ ongoingSteps[Q] = before.ongoingSteps[Q]
                  /\ \A i \in DOMAIN newOps : newOps[i].step # ongoingSteps[Q]
            /\ PhaseSteps(ops, Q) = PhaseSteps(before.ops, Q)
            /\ OpenSteps(ops, Q) = OpenSteps(before.ops, Q)

\* both phases had an open Step; the Failed event of one closed its Step and
\* the Step of the other is still open
C32_Witness ==
    /\ Len(accepted) = 3
    /\ \A phase \in Phases : OpenSteps(before.ops, phase) # {}
    /\ IsPlain(Last, ProcessFailed)
    /\ OpenSteps(ops, Last.Phase) = {}
    /\ \E Q \in Phases \ {Last.Phase} : OpenSteps(ops, Q) # {}

(* ------------------------------------------------------------------ *)
(* C33  Shape of the error stream                                     *)
(* ------------------------------------------------------------------ *)

\* C33: an event causes at most one error and at most one send on Errors; the
\* caller receives that error while its event is still the last one accepted;
\* so the errors received are in the order of their events.
C33_ErrorStreamShape ==
    /\ \A k \in DOMAIN accepted :
          /\ Cardinality({i \in DOMAIN errs : errs[i].ev = k}) <= 1
          /\ Cardinality(SinkFor(k)) <= 1
    /\ \A i \in DOMAIN sink :
          /\ sink[i].ev \in DOMAIN accepted
          /\ \E j \in DOMAIN errs : errs[j] = sink[i]
    /\ \A i, j \in DOMAIN sink : i < j => sink[i].ev < sink[j].ev
    /\ cpc = "sendErr" => SinkFor(LastIdx) = {}

\* three events gave three errors, received in the order of the events
C33_Witness ==
    /\ Errors = "chan"
    /\ Len(accepted) = 3
    /\ Len(sink) = 3
    /\ \A k \in 1..3 : sink[k].ev = k
    /\ sink[3].err # sink[1].err
    /\ cpc = "recv"

(* ------------------------------------------------------------------ *)
(* C34  The stopped flag and the channel                              *)
(* ------------------------------------------------------------------ *)

\* C34: under any sequence of Start() and Stop() calls, stopped is true
\* exactly when the channel now in ui.updates has been closed.
C34_StoppedTracksChannel == stopped <=> updates = "closed"


C36_DeleteFailureReturnsError ==
    cmd.deleteErr = "err" => cmd.result = "error"

(* ------------------------------------------------------------------ *)
(* C37  Phase labels                                                  *)
(* ------------------------------------------------------------------ *)

\* the label the const block gives a phase
PhaseLabel(phase) ==
    CASE phase = InstallPreRequisites   -> "Deploying pre-requisites"
      [] phase = UninstallPreRequisites -> "Undeploying pre-requisites"
      [] phase = InstallComponents      -> "Deploying Kyma"
      [] phase = UninstallComponents    -> "Undeploying Kyma"

\* C37: a Start event for a phase without entry creates one Step and records
\* it as the phase's entry, with no error; for one of the four known phases
\* the Step has that phase's own label, for any other phase value the empty
\* label; the Steps created for two different known phases have different
\* labels.
C37_PhaseLabels ==
    /\ (Handled /\ Last.Event = ProcessStart
            /\ ~exists(before.ongoingSteps, Last.Phase)) =>
          /\ newErrs = <<>>
          /\ Len(newSteps) = 1
          /\ newOps = <<[op |-> "NewStep", step |-> Len(steps), ev |-> LastIdx]>>
          /\ exists(ongoingSteps, Last.Phase)
          /\ ongoingSteps[Last.Phase] = Len(steps)
          /\ IF Last.Phase \in KnownPhases
                THEN newSteps[1] = PhaseLabel(Last.Phase) /\ newSteps[1] # ""
                ELSE newSteps[1] = ""
    /\ \A P \in DOMAIN ongoingSteps, Q \in DOMAIN ongoingSteps :
          (P \in KnownPhases /\ Q \in KnownPhases /\ P # Q) =>
              steps[ongoingSteps[P]] # steps[ongoingSteps[Q]]

\* Start events for a phase outside the four and for two known phases were
\* accepted: three Steps, the first with the empty label, no error
C37_Witness ==
    /\ Len(accepted) = 3
    /\ accepted[1].Phase = UnknownPhase
    /\ steps = <<"", "Undeploying Kyma", "Deploying Kyma">>
    /\ DOMAIN ongoingSteps = {UnknownPhase, UninstallComponents, InstallComponents}
    /\ errs = <<>>

====
